---- MODULE Spec2Model ----
(***************************************************************************)
(* Model of the evalplus evaluation harness:                               *)
(*   src/evalplus/evaluate.py       get_groundtruth, check_correctness,    *)
(*                                  evaluate_humaneval                     *)
(*   src/eval_result/data_handler.py  failed-case extraction and differ    *)
(*                                                                         *)
(* A file that may or may not exist is a sequence of length 0 (absent) or  *)
(* 1 (present, holding its content).                                       *)
(***************************************************************************)
EXTENDS Integers, Sequences, FiniteSets, TLC

VARIABLES
    \* ---- file system
    resultFile,      \* the file at result_path
    backups,         \* backups[i] is the file at result_path + i times ".bak"
    cache,           \* cache[h] is the file CACHE_DIR/<h>.pkl
    \* ---- one invocation of evaluate_humaneval
    pc,              \* position of the main thread
    flags,           \* the command line flags
    results,         \* the local variable results
    expected_output, \* the local variable expected_output
    futures,         \* the futures list, in submission order
    completion_id,   \* the Counter of per-task completion indices
    n_samples,       \* the local variable n_samples
    remainings,      \* the set of outstanding run identifiers
    eval_results,    \* the defaultdict(list), in key insertion order
    collected,       \* indices of the futures as_completed has yielded
    decision,        \* the operator's last answer at the prompt
    summary,         \* what the pass@k section printed
    err,             \* the exception that ended the run, "" if none
    \* ---- bookkeeping of the runs
    dispatched,      \* a run of this behaviour has entered the dispatch block
    writes,          \* json.dump calls of the current run
    execCalls,       \* execCalls[h]: oracle computations carried out for hash h
    oracleM,         \* oracleM[h]: the mapping the computing call returned
    calls,           \* get_groundtruth calls made by the oracle driver
    \* ---- the stand-alone commands
    lastHash,        \* the hash of the oracle driver's last get_groundtruth call
    oraclePc,        \* how that call ended
    txt1,            \* the failure file the differ may be given, as raw lines
    txt2,            \* the other failure file
    outputs,         \* outputs[o]: the two files the differ wrote under prefix o
    jsonFile,        \* the result document the extraction command is given
    failedOut,       \* the file <output>-failed-cases.txt
    toolPc,          \* how generate_failed_cases ended
    raisedFor,       \* hashes for which a call of the oracle driver has raised
    \* ---- the thread running stucking_checker
    wpc,             \* position of the watchdog thread
    last_size,       \* its local variable last_size
    iterUsed,        \* the size its set iterator recorded when it was created
    stdout           \* the last diagnostic printed: the count and the identifiers

diskVars == <<resultFile, backups, cache>>
runVars == <<pc, flags, results, expected_output, futures, completion_id,
             n_samples, remainings, eval_results, collected, decision, summary, err>>
bookVars == <<dispatched, writes, execCalls, oracleM, calls>>
toolVars == <<lastHash, oraclePc, txt1, txt2, outputs, jsonFile, failedOut, toolPc, raisedFor>>
watchVars == <<wpc, last_size, iterUsed, stdout>>
vars == <<diskVars, runVars, bookVars, toolVars, watchVars>>

\* ------------------------------------------------------------------ bounds
\* candidates one run streams
MaxSamples == 3
\* get_groundtruth calls of the oracle driver
MaxCalls == 4
\* lines of a failure file
MaxLines == 2
\* candidates per task in a document given to the extraction command
MaxCands == 2

\* --------------------------------------------------------------- constants
SUCCESS == "success"
FAILED == "failed"
TIMEOUT == "timeout"

\* the k of pass@k
Ks == {1, 10, 100}

\* ------------------------------------------------------------------ helpers
Range(s) == {s[i] : i \in 1..Len(s)}

Min(s) == CHOOSE m \in Range(s) : \A x \in Range(s) : m <= x

\* a file: absent, or present with content c
NoFile == <<>>
File(c) == <<c>>
isfile(f) == f # NoFile
Content(f) == f[1]

\* ------------------------------------------------- the dataset collaborator
\* get_human_eval_plus(): the problem mapping, in key order
ProblemIds == <<"P1", "P2">>
Problems == Range(ProblemIds)

\* texts are sequences of tokens; + on texts is \o
problems(h) ==
    [t \in Problems |->
        [task_id |-> t,
         prompt |-> <<"prompt", t>>,
         canonical_solution |-> <<"canon", h>>,
         base_input |-> <<t, "base">>,
         plus_input |-> <<t, "plus">>,
         entry_point |-> t,
         atol |-> 0]]

\* get_human_eval_plus_hash(): the hash of the dataset evaluate_humaneval uses
Hashes == {"h1", "h2", "h3"}
get_human_eval_plus_hash == "h1"

\* load_solutions(): the records the candidate stream is drawn from. A record
\* carries either the full solution or a completion of the prompt. "PX" is a
\* task the dataset does not have; a record streamed twice repeats its
\* _identifier.
CandidatePool ==
    { [task_id |-> "P1", solution |-> <<"good">>, _identifier |-> "a"],
      [task_id |-> "P1", completion |-> <<"weak">>, _identifier |-> "b"],
      [task_id |-> "P2", solution |-> <<"bad">>, _identifier |-> "c"],
      [task_id |-> "P2", completion |-> <<"crash">>, _identifier |-> "d"],
      [task_id |-> "PX", solution |-> <<"good">>, _identifier |-> "e"] }

\* the command lines evaluate_humaneval is started with
FlagSets ==
    { [base_only |-> FALSE, i_just_wanna_run |-> FALSE, full |-> FALSE],
      [base_only |-> TRUE,  i_just_wanna_run |-> FALSE, full |-> TRUE],
      [base_only |-> FALSE, i_just_wanna_run |-> TRUE,  full |-> TRUE],
      [base_only |-> TRUE,  i_just_wanna_run |-> TRUE,  full |-> FALSE] }

\* ----------------------------------------------- the execution collaborator
\* what the program text does when run: its last token
Behaviour(solution) == solution[Len(solution)]

\* trusted_exec(code, inputs, entry_point, record_time=True): outputs and time
trusted_exec(code, inputs, entry_point, tm) == <<<<"out", code, inputs>>, tm>>

\* whether running the text kills the worker instead of returning a status
Raises(solution) == Behaviour(solution) = "crash"

\* untrusted_check(...): (status, details)
untrusted_check(solution, inputs, entry_point, expected, atol, ref_time, fast_check) ==
    LET b == Behaviour(solution)
        st == IF b = "good" THEN SUCCESS
              ELSE IF b = "weak" THEN (IF inputs[2] = "base" THEN SUCCESS ELSE FAILED)
              ELSE IF b = "slow" THEN TIMEOUT
              ELSE FAILED
    IN  <<st, IF st = SUCCESS THEN <<TRUE>> ELSE IF fast_check THEN <<FALSE>> ELSE <<FALSE, TRUE>>>>

\* ------------------------------------------------------------ oracle cache
\* the measured wall-clock times trusted_exec may report
Timings == {1, 2}

\* pickle.dump of the oracle mapping: its items, in the mapping's key order
PickleDump(m) == [i \in 1..Len(ProblemIds) |-> <<ProblemIds[i], m[ProblemIds[i]]>>]

\* pickle.load: the mapping rebuilt from the items
PickleLoad(b) ==
    [t \in {b[i][1] : i \in 1..Len(b)} |->
        b[CHOOSE i \in 1..Len(b) : b[i][1] = t][2]]

\* lines 44-60: the oracle of every problem, tm the time trusted_exec measured
ComputeOracle(probs, tm) ==
    [t \in DOMAIN probs |->
        LET problem == probs[t]
            b == trusted_exec(problem.prompt \o problem.canonical_solution,
                              problem.base_input, problem.entry_point, tm)
            p == trusted_exec(problem.prompt \o problem.canonical_solution,
                              problem.plus_input, problem.entry_point, tm)
        IN  [base |-> b[1], base_time |-> b[2], plus |-> p[1], plus_time |-> p[2]]]

\* get_groundtruth misses the cache for hashcode
CacheMiss(hashcode) == ~isfile(cache[hashcode])

\* the cache file ignored: the oracle is computed and written at every call
get_groundtruth_recompute(probs, hashcode, tm, ok) ==
    /\ expected_output' = File(ComputeOracle(probs, tm))
    /\ cache' = [cache EXCEPT ![hashcode] = File(PickleDump(ComputeOracle(probs, tm)))]
    /\ execCalls' = [execCalls EXCEPT ![hashcode] = @ + 1]
    /\ oracleM' = [oracleM EXCEPT ![hashcode] = File(ComputeOracle(probs, tm))]

\* the cache file opened for writing before the oracle is computed: a failed
\* computation leaves the file behind, empty
get_groundtruth_open_first(probs, hashcode, tm, ok) ==
    IF isfile(cache[hashcode])
    THEN /\ expected_output' = File(PickleLoad(Content(cache[hashcode])))
         /\ UNCHANGED <<cache, execCalls, oracleM>>
    ELSE IF ok
    THEN /\ expected_output' = File(ComputeOracle(probs, tm))
         /\ cache' = [cache EXCEPT ![hashcode] = File(PickleDump(ComputeOracle(probs, tm)))]
         /\ execCalls' = [execCalls EXCEPT ![hashcode] = @ + 1]
         /\ oracleM' = [oracleM EXCEPT ![hashcode] = File(ComputeOracle(probs, tm))]
    ELSE /\ expected_output' = NoFile
         /\ cache' = [cache EXCEPT ![hashcode] = File(<<>>)]
         /\ UNCHANGED <<execCalls, oracleM>>

\* get_groundtruth(problems, hashcode): ok is whether every trusted_exec
\* returns. Sets expected_output to the mapping returned, NoFile if it raised.
get_groundtruth(probs, hashcode, tm, ok) ==
    IF isfile(cache[hashcode])
    THEN /\ expected_output' = File(PickleLoad(Content(cache[hashcode])))
         /\ UNCHANGED <<cache, execCalls, oracleM>>
    ELSE IF ok
    THEN /\ expected_output' = File(ComputeOracle(probs, tm))
         /\ cache' = [cache EXCEPT ![hashcode] = File(PickleDump(ComputeOracle(probs, tm)))]
         /\ execCalls' = [execCalls EXCEPT ![hashcode] = @ + 1]
         /\ oracleM' = [oracleM EXCEPT ![hashcode] = File(ComputeOracle(probs, tm))]
    ELSE /\ expected_output' = NoFile
         /\ UNCHANGED <<cache, execCalls, oracleM>>

\* ------------------------------------------------------- correctness checker
\* check_correctness(...): the result record; plus is NoFile when skipped
check_correctness(cid, problem, solution, expected, base_only, fast_check, identifier) ==
    [completion_id |-> cid,
     task_id |-> problem.task_id,
     _identifier |-> identifier,
     base |-> untrusted_check(solution, problem.base_input, problem.entry_point,
                              expected.base, problem.atol, expected.base_time, fast_check),
     plus |-> IF ~base_only
              THEN untrusted_check(solution, problem.plus_input, problem.entry_point,
                                   expected.plus, problem.atol, expected.plus_time, fast_check)
              ELSE NoFile]

\* what future.result() returns for a finished future
ResultOf(f) ==
    check_correctness(f.args[1], f.args[2], f.args[3], f.args[4], f.args[5], f.args[6], f.args[7])

\* ------------------------------------------------------------- result store
\* compatible_eval_result(results): a document of the current format as it is
compatible_eval_result(d) == d

\* n copies of x
Rep(n, x) == [i \in 1..n |-> x]

\* documents earlier runs over larger candidate sets have left at result_path
DocTen ==
    [date |-> "earlier", hash |-> "h1",
     eval |-> << [task |-> "P2", nfiles |-> 12,
                  base |-> Rep(12, <<SUCCESS, <<TRUE>>>>),
                  plus |-> Rep(12, <<FAILED, <<FALSE>>>>)],
                 [task |-> "P1", nfiles |-> 10,
                  base |-> Rep(10, <<FAILED, <<FALSE>>>>),
                  plus |-> Rep(10, <<FAILED, <<FALSE>>>>)] >>]

DocHundred ==
    [date |-> "earlier", hash |-> "h1",
     eval |-> << [task |-> "P1", nfiles |-> 100,
                  base |-> Rep(100, <<SUCCESS, <<TRUE>>>>),
                  plus |-> Rep(100, <<SUCCESS, <<TRUE>>>>)],
                 [task |-> "P2", nfiles |-> 101,
                  base |-> Rep(101, <<TIMEOUT, <<FALSE>>>>),
                  plus |-> Rep(101, <<TIMEOUT, <<FALSE>>>>)] >>]

DocBaseOnly ==
    [date |-> "earlier", hash |-> "h1",
     eval |-> << [task |-> "P1", nfiles |-> 10,
                  base |-> Rep(10, <<SUCCESS, <<TRUE>>>>), plus |-> <<>>],
                 [task |-> "P2", nfiles |-> 9,
                  base |-> Rep(9, <<SUCCESS, <<TRUE>>>>), plus |-> <<>>] >>]

\* a document whose first task has a candidate that failed the base suite
\* and passed the plus suite
DocFlaky ==
    [date |-> "earlier", hash |-> "h1",
     eval |-> << [task |-> "P1", nfiles |-> 2,
                  base |-> <<<<FAILED, <<FALSE>>>>, <<SUCCESS, <<TRUE>>>>>>,
                  plus |-> <<<<SUCCESS, <<TRUE>>>>, <<FAILED, <<FALSE>>>>>>],
                 [task |-> "P2", nfiles |-> 1,
                  base |-> <<<<SUCCESS, <<TRUE>>>>>>,
                  plus |-> <<<<SUCCESS, <<TRUE>>>>>>] >>]

\* a document whose first task has no plus results while its second has
DocMixed ==
    [date |-> "earlier", hash |-> "h1",
     eval |-> << [task |-> "P1", nfiles |-> 2,
                  base |-> <<<<SUCCESS, <<TRUE>>>>, <<SUCCESS, <<TRUE>>>>>>,
                  plus |-> <<>>],
                 [task |-> "P2", nfiles |-> 2,
                  base |-> <<<<FAILED, <<FALSE>>>>, <<SUCCESS, <<TRUE>>>>>>,
                  plus |-> <<<<FAILED, <<FALSE>>>>, <<SUCCESS, <<TRUE>>>>>>] >>]

InitDocs == {DocTen, DocHundred, DocBaseOnly, DocFlaky, DocMixed}

\* result_path + ".bak" whether or not it is a file
FirstBak(bk, i) == i

\* the first result_path + ".bak" * i that is no file (lines 204-206)
RECURSIVE NewPath(_, _)
NewPath(bk, i) == IF i <= Len(bk) /\ isfile(bk[i]) THEN NewPath(bk, i + 1) ELSE i

\* os.rename(result_path, new_path): the backups after the move to slot i
Rename(bk, i, f) ==
    [j \in 1..(IF i > Len(bk) THEN i ELSE Len(bk)) |->
        IF j = i THEN f ELSE IF j <= Len(bk) THEN bk[j] ELSE NoFile]

\* decision.lower()
Lower(d) == IF d = "Y" THEN "y" ELSE IF d = "N" THEN "n" ELSE d

\* what the operator may type at the prompt
Decisions == {"y", "Y", "n", "N", ""}

\* ----------------------------------------------------------- aggregation
\* position of task_id among the keys of eval_results, 0 if it is no key
KeyIndex(er, task_id) ==
    IF \E i \in 1..Len(er) : er[i].task = task_id
    THEN CHOOSE i \in 1..Len(er) : er[i].task = task_id
    ELSE 0

\* the result filed under a key of its own, the task's list not looked up
AppendResult_OwnKey(er, result) ==
    Append(er, [task |-> result.task_id, list |-> <<result>>])

\* eval_results[task_id].append(result) on the defaultdict(list)
AppendResult(er, result) ==
    LET i == KeyIndex(er, result.task_id)
    IN  IF i = 0
        THEN Append(er, [task |-> result.task_id, list |-> <<result>>])
        ELSE [er EXCEPT ![i].list = Append(@, result)]

\* list.sort(key=completion_id): stable insertion of x into a sorted list
RECURSIVE InsertSorted(_, _)
InsertSorted(s, x) ==
    IF s = <<>> THEN <<x>>
    ELSE IF s[Len(s)].completion_id <= x.completion_id THEN Append(s, x)
    ELSE Append(InsertSorted(SubSeq(s, 1, Len(s) - 1), x), s[Len(s)])

\* the sort left out: the results stay in collection order
NoSort(task_results) == task_results

\* task_results.sort(key=lambda x: x["completion_id"])  (line 187)
RECURSIVE SortByCompletionId(_)
SortByCompletionId(task_results) ==
    IF task_results = <<>> THEN <<>>
    ELSE InsertSorted(SortByCompletionId(SubSeq(task_results, 1, Len(task_results) - 1)),
                      task_results[Len(task_results)])

\* the entry of results["eval"] for one task (lines 188-194)
TaskEntry(task_id, task_results, base_only) ==
    LET sorted == SortByCompletionId(task_results)
    IN  [task |-> task_id,
         nfiles |-> Len(sorted),
         base |-> [j \in 1..Len(sorted) |-> sorted[j].base],
         plus |-> IF ~base_only THEN [j \in 1..Len(sorted) |-> sorted[j].plus] ELSE <<>>]

\* lines 186-194 over every item of eval_results
Aggregated(er, base_only) ==
    [i \in 1..Len(er) |-> TaskEntry(er[i].task, er[i].list, base_only)]

\* ------------------------------------------------------------------ pass@k
\* total = [r["nfiles"] for r in results["eval"].values()]
Total(d) == [i \in 1..Len(d.eval) |-> d.eval[i].nfiles]

\* bc = sum([r[0] == SUCCESS for r in res["base"]])
BaseCorrectOf(res) == Cardinality({j \in 1..Len(res.base) : res.base[j][1] = SUCCESS})

BaseCorrect(d) == [i \in 1..Len(d.eval) |-> BaseCorrectOf(d.eval[i])]

\* the plus status counted alone, the base status not looked at
PlusCorrectOf_PlusAlone(res) ==
    Cardinality({j \in 1..Len(res.plus) : res.plus[j][1] = SUCCESS})

\* sum of res["plus"][i][0] == res["base"][i][0] == SUCCESS over the plus results
PlusCorrectOf(res) ==
    Cardinality({j \in 1..Len(res.plus) :
                    res.plus[j][1] = res.base[j][1] /\ res.base[j][1] = SUCCESS})

\* new_correct: one entry for every task whose plus list is non-empty
RECURSIVE NewCorrectUpTo(_, _)
NewCorrectUpTo(d, n) ==
    IF n = 0 THEN <<>>
    ELSE IF d.eval[n].plus # <<>>
         THEN Append(NewCorrectUpTo(d, n - 1), PlusCorrectOf(d.eval[n]))
         ELSE NewCorrectUpTo(d, n - 1)

NewCorrect(d) == NewCorrectUpTo(d, Len(d.eval))

\* estimate_pass_at_k(num_samples, num_correct, k).mean(): the estimator is
\* kept as the (n, c, k) it is applied to, task by task
estimate_pass_at_k(num_samples, num_correct, k) ==
    [i \in 1..Len(num_correct) |-> <<num_samples[i], num_correct[i], k>>]

\* the estimator refuses vectors of different lengths
EstimateRaises(num_samples, num_correct) == Len(num_samples) # Len(num_correct)

\* total.min() > k
BaseKeysStrict(total) == {k \in Ks : Min(total) > k}

\* the k for which the base pass reports pass@k: total.min() >= k
BaseKeys(total) == {k \in Ks : Min(total) >= k}

\* the k for which the base+plus pass reports pass@k: (total >= k).all()
PlusKeys(total) == {k \in Ks : \A i \in 1..Len(total) : total[i] >= k}

\* lines 233-237
PassAtKBase(d) ==
    [k \in BaseKeys(Total(d)) |-> estimate_pass_at_k(Total(d), BaseCorrect(d), k)]

\* lines 243-247
PassAtKPlus(d) ==
    [k \in PlusKeys(Total(d)) |-> estimate_pass_at_k(Total(d), NewCorrect(d), k)]

\* whether the base+plus pass is entered (line 241) and whether it raises
PlusPass(d) == NewCorrect(d) # <<>>
PlusPassRaises(d) ==
    PlusPass(d) /\ PlusKeys(Total(d)) # {} /\ EstimateRaises(Total(d), NewCorrect(d))

\* ------------------------------------------------------ evaluate_humaneval
\* the locals of a run that has not started
FreshRun ==
    /\ results = NoFile
    /\ expected_output = NoFile
    /\ futures = <<>>
    /\ completion_id = [t \in Problems |-> 0]
    /\ n_samples = 0
    /\ remainings = {}
    /\ eval_results = <<>>
    /\ collected = {}
    /\ decision = ""
    /\ summary = [base |-> NoFile, plus |-> NoFile]
    /\ err = ""

\* the oracle an earlier run has left in the cache
CachedOracle == ComputeOracle(problems(get_human_eval_plus_hash), 1)

CacheEmpty == [h \in Hashes |-> NoFile]
CacheFilled == [CacheEmpty EXCEPT ![get_human_eval_plus_hash] = File(PickleDump(CachedOracle))]

\* what earlier runs have left on disk: result file, backups, cache
InitDisks ==
    { <<NoFile, <<>>, CacheEmpty>>,
      <<NoFile, <<>>, CacheFilled>>,
      <<File(DocTen), <<>>, CacheFilled>>,
      <<File(DocHundred), <<File(DocBaseOnly), NoFile, File(DocTen)>>, CacheFilled>>,
      <<File(DocBaseOnly), <<File(DocTen)>>, CacheEmpty>>,
      <<File(DocFlaky), <<>>, CacheFilled>>,
      <<File(DocMixed), <<>>, CacheFilled>> }

\* no thread runs stucking_checker
WatchIdle ==
    /\ wpc = "unstarted"
    /\ last_size = 0
    /\ iterUsed = 0
    /\ stdout = [count |-> 0, ids |-> {}]

\* no stand-alone command has run
ToolsIdle ==
    /\ lastHash = get_human_eval_plus_hash
    /\ oraclePc = "idle"
    /\ txt1 = <<>>
    /\ txt2 = <<>>
    /\ outputs = [o \in {"fwd", "swp"} |-> [f1_not_f2 |-> NoFile, f2_not_f1 |-> NoFile]]
    /\ jsonFile = NoFile
    /\ failedOut = NoFile
    /\ toolPc = "idle"
    /\ raisedFor = {}

Init ==
    /\ \E disk \in InitDisks :
          /\ resultFile = disk[1]
          /\ backups = disk[2]
          /\ cache = disk[3]
    /\ pc = "idle"
    /\ flags \in FlagSets
    /\ FreshRun
    /\ dispatched = FALSE
    /\ writes = 0
    /\ execCalls = [h \in Hashes |-> IF isfile(cache[h]) THEN 1 ELSE 0]
    /\ oracleM = [h \in Hashes |-> IF isfile(cache[h]) THEN File(CachedOracle) ELSE NoFile]
    /\ calls = 0
    /\ ToolsIdle
    /\ WatchIdle

\* evaluate_humaneval(flags) is called (lines 107-117)
StartRun ==
    /\ pc = "idle"
    /\ pc' = "line119"
    /\ writes' = 0
    /\ UNCHANGED <<diskVars, flags, results, expected_output, futures, completion_id,
                   n_samples, remainings, eval_results, collected, decision, summary, err,
                   dispatched, execCalls, oracleM, calls>>
    /\ UNCHANGED <<toolVars, watchVars>>

\* lines 119-124: the result file exists and the run is not forced
LoadResults ==
    /\ pc = "line119"
    /\ isfile(resultFile) /\ ~flags.i_just_wanna_run
    /\ results' = File(compatible_eval_result(Content(resultFile)))
    /\ pc' = "line196"
    /\ UNCHANGED <<diskVars, flags, expected_output, futures, completion_id, n_samples,
                   remainings, eval_results, collected, decision, summary, err, bookVars>>
    /\ UNCHANGED <<toolVars, watchVars>>

\* lines 126-135: problems, hash, oracle and the empty results document.
\* One run of a behaviour enters the dispatch block (dispatched); the disks
\* such runs leave behind for the next one are among InitDisks.
LoadOracle(tm, ok) ==
    /\ pc = "line119"
    /\ ~(isfile(resultFile) /\ ~flags.i_just_wanna_run)
    /\ ~dispatched
    /\ get_groundtruth(problems(get_human_eval_plus_hash), get_human_eval_plus_hash, tm, ok)
    /\ IF CacheMiss(get_human_eval_plus_hash) /\ ~ok
       THEN /\ pc' = "error"
            /\ err' = "trusted_exec"
            /\ UNCHANGED <<results, dispatched>>
       ELSE /\ pc' = "reading"
            /\ results' = File([date |-> "now", hash |-> get_human_eval_plus_hash, eval |-> <<>>])
            /\ dispatched' = TRUE
            /\ UNCHANGED err
    /\ UNCHANGED <<resultFile, backups, flags, futures, completion_id, n_samples,
                   remainings, eval_results, collected, decision, summary, writes, calls>>
    /\ UNCHANGED <<toolVars, watchVars>>

\* sample["solution"] if "solution" in sample else prompt + completion
SolutionOf(sample, probs) ==
    IF "solution" \in DOMAIN sample
    THEN sample.solution
    ELSE probs[sample.task_id].prompt \o sample.completion

\* the sample submitted with the run-wide count n_samples as its index
ReadSample_RunWideIndex(sample) ==
    /\ pc = "reading"
    /\ n_samples < MaxSamples
    /\ LET task_id == sample.task_id
           probs == problems(get_human_eval_plus_hash)
       IN  IF task_id \notin DOMAIN probs
           THEN /\ pc' = "error"
                /\ err' = "KeyError"
                /\ remainings' = IF "solution" \in DOMAIN sample
                                 THEN remainings \cup {sample._identifier}
                                 ELSE remainings
                /\ UNCHANGED <<futures, completion_id, n_samples>>
           ELSE /\ remainings' = remainings \cup {sample._identifier}
                /\ futures' = Append(futures,
                       [args |-> <<n_samples, probs[task_id],
                                   SolutionOf(sample, probs),
                                   Content(expected_output)[task_id],
                                   flags.base_only, ~flags.full, sample._identifier>>,
                        state |-> "pending"])
                /\ completion_id' = [completion_id EXCEPT ![task_id] = @ + 1]
                /\ n_samples' = n_samples + 1
                /\ UNCHANGED <<pc, err>>
    /\ UNCHANGED <<diskVars, flags, results, expected_output, eval_results, collected,
                   decision, summary, bookVars>>
    /\ UNCHANGED <<toolVars, watchVars>>

\* lines 145-164: one sample of the stream is read and submitted
ReadSample(sample) ==
    /\ pc = "reading"
    /\ n_samples < MaxSamples
    /\ LET task_id == sample.task_id
           probs == problems(get_human_eval_plus_hash)
       IN  IF task_id \notin DOMAIN probs
           THEN \* KeyError: problems[task_id], at line 150 or at line 155
                /\ pc' = "error"
                /\ err' = "KeyError"
                /\ remainings' = IF "solution" \in DOMAIN sample
                                 THEN remainings \cup {sample._identifier}
                                 ELSE remainings
                /\ UNCHANGED <<futures, completion_id, n_samples>>
           ELSE /\ remainings' = remainings \cup {sample._identifier}
                /\ futures' = Append(futures,
                       [args |-> <<completion_id[task_id], probs[task_id],
                                   SolutionOf(sample, probs),
                                   Content(expected_output)[task_id],
                                   flags.base_only, ~flags.full, sample._identifier>>,
                        state |-> "pending"])
                /\ completion_id' = [completion_id EXCEPT ![task_id] = @ + 1]
                /\ n_samples' = n_samples + 1
                /\ UNCHANGED <<pc, err>>
    /\ UNCHANGED <<diskVars, flags, results, expected_output, eval_results, collected,
                   decision, summary, bookVars>>
    /\ UNCHANGED <<toolVars, watchVars>>

\* len(completion_id): the tasks the Counter has a key for
LenCounter(c) == Cardinality({t \in DOMAIN c : c[t] > 0})

\* line 167 left out
AssertionsHold_NoTaskCheck == n_samples = Cardinality(remainings)

\* line 166 left out
AssertionsHold_NoIdentifierCheck == LenCounter(completion_id) = Len(ProblemIds)

\* lines 166-167, at the end of the stream
AssertionsHold ==
    /\ n_samples = Cardinality(remainings)
    /\ LenCounter(completion_id) = Len(ProblemIds)

\* the stream ends: the assertions of lines 166-167, then line 178 starts the
\* thread that runs stucking_checker
EndOfStream ==
    /\ pc = "reading"
    /\ IF AssertionsHold
       THEN /\ pc' = "collecting"
            /\ wpc' = "line170"
            /\ UNCHANGED <<err, last_size, iterUsed, stdout>>
       ELSE /\ pc' = "error"
            /\ err' = "AssertionError"
            /\ UNCHANGED watchVars
    /\ UNCHANGED <<diskVars, flags, results, expected_output, futures, completion_id,
                   n_samples, remainings, eval_results, collected, decision, summary, bookVars>>
    /\ UNCHANGED toolVars

\* a pool worker runs check_correctness for the i-th submitted future
Worker(i) ==
    /\ pc # "idle"
    /\ i \in 1..Len(futures)
    /\ futures[i].state = "pending"
    /\ futures' = [futures EXCEPT ![i].state =
                      IF Raises(futures[i].args[3]) THEN "raised" ELSE "finished"]
    /\ UNCHANGED <<diskVars, pc, flags, results, expected_output, completion_id, n_samples,
                   remainings, eval_results, collected, decision, summary, err, bookVars>>
    /\ UNCHANGED <<toolVars, watchVars>>

\* lines 180-183: as_completed yields the i-th future
Collect(i) ==
    /\ pc = "collecting"
    /\ i \in 1..Len(futures)
    /\ i \notin collected
    /\ futures[i].state # "pending"
    /\ collected' = collected \cup {i}
    /\ IF futures[i].state = "raised"
       THEN \* future.result() raises
            /\ pc' = "error"
            /\ err' = "future.result"
            /\ UNCHANGED <<remainings, eval_results>>
       ELSE LET result == ResultOf(futures[i])
            IN  IF result._identifier \notin remainings
                THEN \* remainings.remove raises
                     /\ pc' = "error"
                     /\ err' = "KeyError"
                     /\ UNCHANGED <<remainings, eval_results>>
                ELSE /\ remainings' = remainings \ {result._identifier}
                     /\ eval_results' = AppendResult(eval_results, result)
                     /\ UNCHANGED <<pc, err>>
    /\ UNCHANGED <<diskVars, flags, results, expected_output, futures, completion_id,
                   n_samples, decision, summary, bookVars>>
    /\ UNCHANGED <<toolVars, watchVars>>

\* lines 185-194: every future has been collected
Aggregate ==
    /\ pc = "collecting"
    /\ collected = 1..Len(futures)
    /\ results' = File([Content(results) EXCEPT
                          !.eval = Aggregated(eval_results, flags.base_only)])
    /\ pc' = "line196"
    /\ UNCHANGED <<diskVars, flags, expected_output, futures, completion_id, n_samples,
                   remainings, eval_results, collected, decision, summary, err, bookVars>>
    /\ UNCHANGED <<toolVars, watchVars>>

\* line 196 with the forced path left out: the operator is never asked
CheckOverwrite_NoPrompt ==
    /\ pc = "line196"
    /\ pc' = "line210"
    /\ UNCHANGED <<diskVars, flags, results, expected_output, futures, completion_id,
                   n_samples, remainings, eval_results, collected, decision, summary, err, bookVars>>
    /\ UNCHANGED <<toolVars, watchVars>>

\* line 196
CheckOverwrite ==
    /\ pc = "line196"
    /\ pc' = IF isfile(resultFile) /\ flags.i_just_wanna_run THEN "prompt" ELSE "line210"
    /\ UNCHANGED <<diskVars, flags, results, expected_output, futures, completion_id,
                   n_samples, remainings, eval_results, collected, decision, summary, err, bookVars>>
    /\ UNCHANGED <<toolVars, watchVars>>

\* lines 197-208: the operator answers the prompt
Prompt(answer) ==
    /\ pc = "prompt"
    /\ decision' = answer
    /\ IF Lower(answer) \notin {"y", "n"}
       THEN UNCHANGED <<pc, resultFile, backups>>
       ELSE /\ pc' = "line210"
            /\ IF Lower(answer) = "y"
               THEN /\ backups' = Rename(backups, NewPath(backups, 1), resultFile)
                    /\ resultFile' = NoFile
               ELSE UNCHANGED <<resultFile, backups>>
    /\ UNCHANGED <<cache, flags, results, expected_output, futures, completion_id,
                   n_samples, remainings, eval_results, collected, summary, err, bookVars>>
    /\ UNCHANGED <<toolVars, watchVars>>

\* the document written whether or not a file is at result_path
PersistAlways ==
    /\ pc = "line210"
    /\ resultFile' = File(Content(results))
    /\ writes' = writes + 1
    /\ pc' = "line215"
    /\ UNCHANGED <<backups, cache, flags, results, expected_output, futures, completion_id,
                   n_samples, remainings, eval_results, collected, decision, summary, err,
                   dispatched, execCalls, oracleM, calls>>
    /\ UNCHANGED <<toolVars, watchVars>>

\* lines 210-212
Persist ==
    /\ pc = "line210"
    /\ IF ~isfile(resultFile)
       THEN resultFile' = File(Content(results)) /\ writes' = writes + 1
       ELSE UNCHANGED <<resultFile, writes>>
    /\ pc' = "line215"
    /\ UNCHANGED <<backups, cache, flags, results, expected_output, futures, completion_id,
                   n_samples, remainings, eval_results, collected, decision, summary, err,
                   dispatched, execCalls, oracleM, calls>>
    /\ UNCHANGED <<toolVars, watchVars>>

\* lines 214-248
PassAtK ==
    /\ pc = "line215"
    /\ LET d == Content(results)
       IN  /\ summary' = [base |-> File(PassAtKBase(d)),
                          plus |-> IF PlusPass(d) /\ ~PlusPassRaises(d)
                                   THEN File(PassAtKPlus(d)) ELSE NoFile]
           /\ IF PlusPassRaises(d)
              THEN pc' = "error" /\ err' = "estimate_pass_at_k"
              ELSE pc' = "done" /\ UNCHANGED err
    /\ UNCHANGED <<diskVars, flags, results, expected_output, futures, completion_id,
                   n_samples, remainings, eval_results, collected, decision, bookVars>>
    /\ UNCHANGED <<toolVars, watchVars>>

\* the process ends once the pool has shut down, by itself or, while the
\* watchdog thread is alive, by the operator's interrupt; the next run has
\* its own flags. A behaviour has one run that dispatches; what earlier such
\* runs leave behind is among InitDisks.
EndRun ==
    /\ pc \in {"done", "error"}
    /\ \A i \in 1..Len(futures) : futures[i].state # "pending"
    /\ pc' = "idle"
    /\ flags' \in FlagSets
    /\ results' = NoFile
    /\ expected_output' = NoFile
    /\ futures' = <<>>
    /\ completion_id' = [t \in Problems |-> 0]
    /\ n_samples' = 0
    /\ remainings' = {}
    /\ eval_results' = <<>>
    /\ collected' = {}
    /\ decision' = ""
    /\ summary' = [base |-> NoFile, plus |-> NoFile]
    /\ err' = ""
    /\ wpc' = "unstarted"
    /\ last_size' = 0
    /\ iterUsed' = 0
    /\ stdout' = [count |-> 0, ids |-> {}]
    /\ UNCHANGED <<diskVars, bookVars>>
    /\ UNCHANGED toolVars

Next ==
    \/ StartRun
    \/ LoadResults
    \/ \E tm \in Timings, ok \in BOOLEAN : LoadOracle(tm, ok)
    \/ \E sample \in CandidatePool : ReadSample(sample)
    \/ EndOfStream
    \/ \E i \in 1..MaxSamples : Worker(i)
    \/ \E i \in 1..MaxSamples : Collect(i)
    \/ Aggregate
    \/ CheckOverwrite
    \/ \E answer \in Decisions : Prompt(answer)
    \/ Persist
    \/ PassAtK
    \/ EndRun

Spec == Init /\ [][Next]_vars

\* ------------------------------------------------------- the watchdog thread
\* stucking_checker (lines 169-176) runs in a thread of its own next to the
\* main thread; remainings is a plain set that both use without a lock, so
\* the main thread may run between any two of the steps below. Spec leaves
\* the thread unscheduled; SpecWatch runs it against one evaluation.

\* line 170: while remainings
WatchWhile ==
    /\ wpc = "line170"
    /\ wpc' = IF remainings = {} THEN "exited" ELSE "line171"
    /\ UNCHANGED <<last_size, iterUsed, stdout>>
    /\ UNCHANGED <<diskVars, runVars, bookVars, toolVars>>

\* line 171: last_size = len(remainings)
WatchLastSize ==
    /\ wpc = "line171"
    /\ last_size' = Cardinality(remainings)
    /\ wpc' = "line172"
    /\ UNCHANGED <<iterUsed, stdout>>
    /\ UNCHANGED <<diskVars, runVars, bookVars, toolVars>>

\* line 172: time.sleep(10) returns
WatchSleep ==
    /\ wpc = "line172"
    /\ wpc' = "line173"
    /\ UNCHANGED <<last_size, iterUsed, stdout>>
    /\ UNCHANGED <<diskVars, runVars, bookVars, toolVars>>

\* line 173, left operand: last_size == len(remainings)
WatchCompare ==
    /\ wpc = "line173"
    /\ wpc' = IF last_size = Cardinality(remainings) THEN "line173and" ELSE "line170"
    /\ UNCHANGED <<last_size, iterUsed, stdout>>
    /\ UNCHANGED <<diskVars, runVars, bookVars, toolVars>>

\* line 173, right operand: len(remainings) > 0, a second read of the set
WatchNonEmpty ==
    /\ wpc = "line173and"
    /\ wpc' = IF Cardinality(remainings) > 0 THEN "line174" ELSE "line170"
    /\ UNCHANGED <<last_size, iterUsed, stdout>>
    /\ UNCHANGED <<diskVars, runVars, bookVars, toolVars>>

\* line 174: the count is printed
WatchPrintCount ==
    /\ wpc = "line174"
    /\ stdout' = [count |-> Cardinality(remainings), ids |-> {}]
    /\ wpc' = "line175"
    /\ UNCHANGED <<last_size, iterUsed>>
    /\ UNCHANGED <<diskVars, runVars, bookVars, toolVars>>

\* line 175: the for statement creates the set iterator, which records the
\* size of the set
WatchIter ==
    /\ wpc = "line175"
    /\ iterUsed' = Cardinality(remainings)
    /\ wpc' = "line176"
    /\ UNCHANGED <<last_size, stdout>>
    /\ UNCHANGED <<diskVars, runVars, bookVars, toolVars>>

\* every identifier the iterator yields is also taken out of the set
WatchNext_Discard ==
    /\ wpc = "line176"
    /\ IF Cardinality(remainings) # iterUsed
       THEN wpc' = "RuntimeError" /\ iterUsed' = 0 /\ UNCHANGED <<stdout, remainings>>
       ELSE IF remainings \ stdout.ids = {}
       THEN wpc' = "line170" /\ iterUsed' = 0 /\ UNCHANGED <<stdout, remainings>>
       ELSE \E remaining \in remainings \ stdout.ids :
               /\ stdout' = [stdout EXCEPT !.ids = @ \cup {remaining}]
               /\ remainings' = remainings \ {remaining}
               /\ UNCHANGED <<wpc, iterUsed>>
    /\ UNCHANGED last_size
    /\ UNCHANGED <<diskVars, pc, flags, results, expected_output, futures, completion_id,
                   n_samples, eval_results, collected, decision, summary, err,
                   bookVars, toolVars>>

\* lines 175-176: the iterator is asked for the next identifier, which is
\* printed. The iterator raises RuntimeError ("Set changed size during
\* iteration") when the set no longer has the size recorded at line 175;
\* nothing in the thread catches it, the thread dies. The order in which a
\* set yields its members is not fixed.
WatchNext ==
    /\ wpc = "line176"
    /\ IF Cardinality(remainings) # iterUsed
       THEN wpc' = "RuntimeError" /\ iterUsed' = 0 /\ UNCHANGED <<stdout, remainings>>
       ELSE IF remainings \ stdout.ids = {}
       THEN wpc' = "line170" /\ iterUsed' = 0 /\ UNCHANGED <<stdout, remainings>>
       ELSE \E remaining \in remainings \ stdout.ids :
               /\ stdout' = [stdout EXCEPT !.ids = @ \cup {remaining}]
               /\ UNCHANGED <<wpc, iterUsed, remainings>>
    /\ UNCHANGED last_size
    /\ UNCHANGED <<diskVars, pc, flags, results, expected_output, futures, completion_id,
                   n_samples, eval_results, collected, decision, summary, err,
                   bookVars, toolVars>>

\* one step of the thread started at line 178
stucking_checker ==
    \/ WatchWhile
    \/ WatchLastSize
    \/ WatchSleep
    \/ WatchCompare
    \/ WatchNonEmpty
    \/ WatchPrintCount
    \/ WatchIter
    \/ WatchNext

\* one step of the main thread of an evaluation that finds no result file
MainThread ==
    \/ StartRun
    \/ \E tm \in Timings, ok \in BOOLEAN : LoadOracle(tm, ok)
    \/ \E sample \in CandidatePool : ReadSample(sample)
    \/ EndOfStream
    \/ \E i \in 1..MaxSamples : Collect(i)
    \/ Aggregate
    \/ CheckOverwrite
    \/ Persist
    \/ PassAtK

\* one evaluation, started with no result file and the oracle in the cache
InitWatch ==
    /\ Init
    /\ resultFile = NoFile
    /\ cache = CacheFilled
    /\ flags = [base_only |-> FALSE, i_just_wanna_run |-> FALSE, full |-> FALSE]

NextWatch ==
    \/ MainThread
    \/ \E i \in 1..MaxSamples : Worker(i)
    \/ stucking_checker

SpecWatch == InitWatch /\ [][NextWatch]_vars

\* the same, with every thread and every pool worker scheduled again and
\* again while it has a step to take
FairSpecWatch ==
    /\ InitWatch
    /\ [][NextWatch]_vars
    /\ WF_vars(MainThread)
    /\ WF_vars(stucking_checker)
    /\ \A i \in 1..MaxSamples : WF_vars(Worker(i))

\* ---------------------------------------------------------------- properties
\* the run has loaded the result file instead of evaluating (lines 119-124)
Loaded == isfile(results) /\ ~isfile(expected_output)

\* the run has evaluated and is past the aggregation of lines 185-194
PastAggregation ==
    /\ isfile(expected_output)
    /\ pc \in {"line196", "prompt", "line210", "line215", "done"}

\* the futures submitted for task_id, in submission order
RECURSIVE TaskFutures(_, _)
TaskFutures(fs, task_id) ==
    IF fs = <<>> THEN <<>>
    ELSE IF fs[Len(fs)].args[2].task_id = task_id
         THEN Append(TaskFutures(SubSeq(fs, 1, Len(fs) - 1), task_id), fs[Len(fs)])
         ELSE TaskFutures(SubSeq(fs, 1, Len(fs) - 1), task_id)

RECURSIVE SumSeq(_)
SumSeq(s) == IF s = <<>> THEN 0 ELSE s[Len(s)] + SumSeq(SubSeq(s, 1, Len(s) - 1))

\* entry e lists, at position j, the outcome of the task's candidate with
\* completion index j - 1
InIndexOrder(e) ==
    LET fs == TaskFutures(futures, e.task)
    IN  /\ Len(e.base) = Len(fs)
        /\ \A j \in 1..Len(fs) :
              /\ ResultOf(fs[j]).completion_id = j - 1
              /\ e.base[j] = ResultOf(fs[j]).base
        /\ IF flags.base_only
           THEN e.plus = <<>>
           ELSE /\ Len(e.plus) = Len(fs)
                /\ \A j \in 1..Len(fs) : e.plus[j] = ResultOf(fs[j]).plus

\* C1: whatever the order in which the pool completes the checks, every
\* task's base and plus sequences of the aggregated (and of the persisted)
\* document list the outcomes in ascending completion-index order, so they
\* are a function of the candidate stream alone.
C1_IndexOrder ==
    PastAggregation =>
        /\ \A i \in 1..Len(Content(results).eval) : InIndexOrder(Content(results).eval[i])
        /\ writes = 1 =>
              \A i \in 1..Len(Content(resultFile).eval) :
                  InIndexOrder(Content(resultFile).eval[i])

\* a task's results were collected against their completion indices, and the
\* document has been written
C1_Witness ==
    /\ pc = "done"
    /\ writes = 1
    /\ \E i \in 1..Len(eval_results) :
          /\ Len(eval_results[i].list) = 2
          /\ eval_results[i].list[1].completion_id > eval_results[i].list[2].completion_id

\* C2: in a run that reaches aggregation the nfiles of the tasks add up to
\* the number of candidates submitted, each task's nfiles is the number of
\* candidates streamed for it, and every problem has at least one candidate.
C2_Counts ==
    PastAggregation =>
        LET ev == Content(results).eval
        IN  /\ SumSeq([i \in 1..Len(ev) |-> ev[i].nfiles]) = n_samples
            /\ n_samples = Len(futures)
            /\ \A i \in 1..Len(ev) : ev[i].nfiles = Len(TaskFutures(futures, ev[i].task))
            /\ \A i, j \in 1..Len(ev) : ev[i].task = ev[j].task => i = j
            /\ \A t \in Problems : \E i \in 1..Len(ev) : ev[i].task = t /\ ev[i].nfiles >= 1

C2_Witness ==
    /\ PastAggregation
    /\ n_samples = 3
    /\ \E i \in 1..Len(Content(results).eval) : Content(results).eval[i].nfiles = 2

\* what the pass@k section prints for document d
SummaryOf(d) ==
    [base |-> File(PassAtKBase(d)),
     plus |-> IF PlusPass(d) THEN File(PassAtKPlus(d)) ELSE NoFile]

\* C3: a run that finds the result file and is not forced uses the stored
\* document as its results: it computes no oracle, submits no check, leaves
\* result file, backups and cache as they are, and its statistics are those
\* of the stored content, so every repetition prints the same.
C3_LoadedRun ==
    /\ [](Loaded =>
            /\ futures = <<>>
            /\ writes = 0
            /\ resultFile = File(Content(results))
            /\ (pc = "done" => summary = SummaryOf(Content(resultFile))))
    /\ [][Loaded' => /\ resultFile' = resultFile
                     /\ backups' = backups
                     /\ cache' = cache
                     /\ execCalls' = execCalls]_vars

C3_Witness ==
    /\ Loaded
    /\ pc = "done"
    /\ Content(resultFile).date = "now"

\* the pass@k keys the claim allows for document d
AllowedKeys(d) == {k \in Ks : \A i \in 1..Len(d.eval) : d.eval[i].nfiles >= k}

\* C4: in the base pass and in the base+plus pass, pass@k is reported for
\* exactly the k in {1, 10, 100} that no task's candidate count is below.
C4_Keys ==
    /\ isfile(summary.base) =>
          DOMAIN Content(summary.base) = AllowedKeys(Content(results))
    /\ isfile(summary.plus) =>
          DOMAIN Content(summary.plus) = AllowedKeys(Content(results))

\* pass@10 is reported and pass@100 is not, in both passes
C4_Witness ==
    /\ isfile(summary.base) /\ DOMAIN Content(summary.base) = {1, 10}
    /\ isfile(summary.plus) /\ DOMAIN Content(summary.plus) = {1, 10}

\* the counts the assertions of lines 166-167 compare differ
Mismatch ==
    \/ n_samples # Cardinality(remainings)
    \/ LenCounter(completion_id) # Len(ProblemIds)

\* a future has left the pending state: its candidate code has been run
Executed == \E i \in 1..Len(futures) : futures[i].state # "pending"

\* C7 as stated: a run that fails the count checks aborts before any check
\* is dispatched to the pool, so that no candidate code is executed and no
\* result document is written.
C7_AbortBeforeDispatch ==
    err = "AssertionError" => futures = <<>> /\ ~Executed /\ writes = 0

\* C7 as the code has it: when the stream ends with mismatching counts the
\* run aborts with a fatal error; every candidate read has been submitted
\* by then, no result is collected or aggregated and no result document is
\* written.
C7_AbortAfterSubmit ==
    /\ [][(pc = "reading" /\ pc' # "reading" /\ Mismatch) =>
              pc' = "error" /\ err' \in {"AssertionError", "KeyError"}]_vars
    /\ [](err = "AssertionError" =>
              /\ pc = "error"
              /\ Len(futures) = n_samples
              /\ collected = {}
              /\ eval_results = <<>>
              /\ Content(results).eval = <<>>
              /\ writes = 0
              /\ ~isfile(summary.base))
    /\ [][err = "AssertionError" => resultFile' = resultFile /\ backups' = backups]_vars

\* the assertion has failed with three checks in the pool, one of them run
C7_Witness ==
    /\ err = "AssertionError"
    /\ Len(futures) = 3
    /\ Executed

\* C8 as stated: no outcome of a submitted check halts the run; the result of
\* every check is collected.
C8_NeverHalts ==
    pc = "error" => err \notin {"future.result"}

\* C9: the result file is written at most once in a run and only where no
\* file exists; the forced path first moves the existing file to a backup
\* name that is free, no existing backup changes or disappears, and after
\* the operator declines nothing on disk changes.
C9_NoOverwrite ==
    /\ [](writes <= 1)
    /\ [][/\ writes' = writes + 1 =>
                /\ ~isfile(resultFile)
                /\ resultFile' = File(Content(results))
                /\ backups' = backups
          /\ (resultFile' # resultFile /\ writes' # writes + 1) =>
                /\ pc = "prompt" /\ Lower(decision') = "y"
                /\ resultFile' = NoFile
                /\ \E i \in 1..Len(backups') :
                      /\ i > Len(backups) \/ ~isfile(backups[i])
                      /\ backups'[i] = resultFile
                      /\ \A j \in 1..Len(backups') :
                            j # i => j <= Len(backups) /\ backups'[j] = backups[j]
          /\ \A i \in 1..Len(backups) :
                isfile(backups[i]) => i <= Len(backups') /\ backups'[i] = backups[i]
          /\ resultFile' = resultFile => backups' = backups
          /\ Lower(decision') = "n" => resultFile' = resultFile /\ backups' = backups
         ]_vars

\* the forced run has moved the old document to the free name between two
\* existing backups and has written its own
C9_Witness ==
    /\ pc = "done"
    /\ writes = 1
    /\ Content(resultFile).date = "now"
    /\ Len(backups) = 3
    /\ backups[2] = File(DocHundred)
    /\ backups[3] = File(DocTen)

\* ------------------------------------------------------------ oracle driver
\* evaluate_humaneval at rest, for the specifications of the other commands
EvalIdle ==
    /\ resultFile = NoFile
    /\ backups = <<>>
    /\ pc = "idle"
    /\ flags = [base_only |-> FALSE, i_just_wanna_run |-> FALSE, full |-> FALSE]
    /\ FreshRun
    /\ dispatched = FALSE
    /\ writes = 0
    /\ WatchIdle

InitOracle ==
    /\ EvalIdle
    /\ cache = CacheEmpty
    /\ execCalls = [h \in Hashes |-> 0]
    /\ oracleM = [h \in Hashes |-> NoFile]
    /\ calls = 0
    /\ ToolsIdle

\* one call get_groundtruth(problems, h), for either dataset
CallGroundtruth(h, tm, ok) ==
    /\ calls < MaxCalls
    /\ calls' = calls + 1
    /\ get_groundtruth(problems(h), h, tm, ok)
    /\ lastHash' = h
    /\ oraclePc' = IF ~CacheMiss(h) THEN "loaded" ELSE IF ok THEN "computed" ELSE "raised"
    /\ raisedFor' = IF CacheMiss(h) /\ ~ok THEN raisedFor \cup {h} ELSE raisedFor
    /\ UNCHANGED <<resultFile, backups, pc, flags, results, futures, completion_id, n_samples,
                   remainings, eval_results, collected, decision, summary, err,
                   dispatched, writes, txt1, txt2, outputs, jsonFile, failedOut, toolPc,
                   watchVars>>

NextOracle == \E h \in Hashes, tm \in Timings, ok \in BOOLEAN : CallGroundtruth(h, tm, ok)

SpecOracle == InitOracle /\ [][NextOracle]_vars

\* C5: once a call has computed the oracle M of a hash and returned it,
\* every later call with that hash returns M, runs no canonical solution and
\* leaves the cache file as it is.
C5_CacheRoundTrip ==
    /\ [](oraclePc \in {"loaded", "computed"} =>
            /\ isfile(oracleM[lastHash])
            /\ expected_output = oracleM[lastHash]
            /\ execCalls[lastHash] = 1)
    /\ [][\A h \in Hashes :
            isfile(cache[h]) =>
                /\ cache'[h] = cache[h]
                /\ execCalls'[h] = execCalls[h]
                /\ oracleM'[h] = oracleM[h]]_vars

\* a call finds its hash cached, after a call for another hash has computed
\* and cached that one's oracle, and returns the oracle that was computed
\* with the slower timing
C5_Witness ==
    /\ oraclePc = "loaded"
    /\ calls >= 3
    /\ \E h \in Hashes \ {lastHash} : isfile(cache[h])
    /\ Content(expected_output)["P1"].base_time = 2

\* the oracle mapping cache file f holds
Cached(f) == PickleLoad(Content(f))

\* C17: when a canonical solution fails during the computation, the call
\* raises, returns no mapping and leaves no cache file for the hash, so the
\* next call with that hash computes again; a cache file is written only by
\* a call that has computed the oracle of every problem.
C17_NoPartialCache ==
    /\ [](oraclePc = "raised" =>
            /\ lastHash \in raisedFor
            /\ expected_output = NoFile
            /\ ~isfile(cache[lastHash])
            /\ execCalls[lastHash] = 0)
    /\ [](\A h \in Hashes :
            isfile(cache[h]) =>
                /\ DOMAIN Cached(cache[h]) = Problems
                /\ Cached(cache[h]) = Content(oracleM[h])
                /\ execCalls[h] = 1)
    /\ [][\A h \in Hashes :
              cache'[h] # cache[h] =>
                  /\ oraclePc' = "computed" /\ lastHash' = h
                  /\ expected_output' = File(Cached(cache'[h]))]_vars
    /\ [][(calls' = calls + 1 /\ lastHash' \in raisedFor /\ ~isfile(cache[lastHash'])) =>
              oraclePc' \in {"computed", "raised"}]_vars
    /\ [][oraclePc' = "raised" /\ calls' = calls + 1 => cache' = cache]_vars

\* a call has computed and cached the oracle of a hash for which an earlier
\* call had raised
C17_Witness ==
    /\ oraclePc = "computed"
    /\ lastHash \in raisedFor
    /\ isfile(cache[lastHash])
    /\ execCalls[lastHash] = 1

\* --------------------------------------------------------- failure-set differ
\* the lines a failure file may hold, without their newline
RawLines == {"a", " a ", "b", "c"}

\* line.strip()
Strip(line) == IF line = " a " THEN "a" ELSE line

\* the failure files of at most MaxLines lines
TxtFiles == UNION {[1..n -> RawLines] : n \in 0..MaxLines}

\* the lines taken as they are, strip() left out
get_failed_cases_from_txt_raw(txt) == txt

\* get_failed_cases_from_txt(txt) (lines 5-10)
get_failed_cases_from_txt(txt) == [i \in 1..Len(txt) |-> Strip(txt[i])]

\* the orders in which iterating over set S may yield its members
Orders(S) == {s \in [1..Cardinality(S) -> S] : Range(s) = S}

InitDiffer ==
    /\ EvalIdle
    /\ cache = CacheEmpty
    /\ execCalls = [h \in Hashes |-> 0]
    /\ oracleM = [h \in Hashes |-> NoFile]
    /\ calls = 0
    /\ lastHash = get_human_eval_plus_hash
    /\ oraclePc = "idle"
    /\ txt1 \in TxtFiles
    /\ txt2 \in TxtFiles
    /\ outputs = [o \in {"fwd", "swp"} |-> [f1_not_f2 |-> NoFile, f2_not_f1 |-> NoFile]]
    /\ jsonFile = NoFile
    /\ failedOut = NoFile
    /\ toolPc = "idle"
    /\ raisedFor = {}

\* the two --file arguments of the run that writes under prefix o
File1(o) == IF o = "fwd" THEN txt1 ELSE txt2
File2(o) == IF o = "fwd" THEN txt2 ELSE txt1

\* compare_two_failed_cases() with --file1, --file2 and --output o (lines 33-53)
compare_two_failed_cases(o) ==
    LET f1 == get_failed_cases_from_txt(File1(o))
        f2 == get_failed_cases_from_txt(File2(o))
        f1_set == Range(f1)
        f2_set == Range(f2)
        f1_not_f2 == f1_set \ f2_set
        f2_not_f1 == f2_set \ f1_set
    IN  /\ \E w1 \in Orders(f1_not_f2), w2 \in Orders(f2_not_f1) :
              outputs' = [outputs EXCEPT ![o] = [f1_not_f2 |-> File(w1), f2_not_f1 |-> File(w2)]]
        /\ UNCHANGED <<diskVars, runVars, bookVars, lastHash, oraclePc, txt1, txt2,
                       jsonFile, failedOut, toolPc, raisedFor, watchVars>>

NextDiffer == \E o \in {"fwd", "swp"} : compare_two_failed_cases(o)

SpecDiffer == InitDiffer /\ [][NextDiffer]_vars

\* the identifier set of a failure file
Ids(txt) == {Strip(txt[i]) : i \in 1..Len(txt)}

\* file f lists exactly the members of S, each once
Lists(f, S) == isfile(f) /\ Range(Content(f)) = S /\ Len(Content(f)) = Cardinality(S)

\* C6: the differ writes exactly F1 \ F2 to the f1-not-f2 file and exactly
\* F2 \ F1 to the f2-not-f1 file, each identifier once and the two files
\* disjoint; the run with the input files swapped writes the same two sets
\* of lines to the opposite files (the order of the lines is not fixed).
C6_Differences ==
    /\ \A o \in {"fwd", "swp"} :
          isfile(outputs[o].f1_not_f2) \/ isfile(outputs[o].f2_not_f1) =>
              /\ Lists(outputs[o].f1_not_f2, Ids(File1(o)) \ Ids(File2(o)))
              /\ Lists(outputs[o].f2_not_f1, Ids(File2(o)) \ Ids(File1(o)))
              /\ Range(Content(outputs[o].f1_not_f2))
                     \cap Range(Content(outputs[o].f2_not_f1)) = {}
    /\ isfile(outputs["fwd"].f1_not_f2) /\ isfile(outputs["swp"].f1_not_f2) =>
          /\ Range(Content(outputs["fwd"].f1_not_f2)) = Range(Content(outputs["swp"].f2_not_f1))
          /\ Range(Content(outputs["fwd"].f2_not_f1)) = Range(Content(outputs["swp"].f1_not_f2))

\* both runs have written, the first file repeats an identifier up to
\* white space, and each difference is non-empty
C6_Witness ==
    /\ isfile(outputs["fwd"].f1_not_f2) /\ isfile(outputs["swp"].f1_not_f2)
    /\ Len(txt1) > Cardinality(Ids(txt1))
    /\ Content(outputs["fwd"].f1_not_f2) # <<>>
    /\ Content(outputs["fwd"].f2_not_f1) # <<>>

\* ------------------------------------------------------ failed-case extraction
\* the (base, plus) statuses one candidate may have in a result document
StatusPairs == {<<SUCCESS, SUCCESS>>, <<SUCCESS, FAILED>>, <<FAILED, FAILED>>, <<TIMEOUT, TIMEOUT>>}

\* the outcomes of the 1..MaxCands candidates of a task
CandSeqs == UNION {[1..n -> StatusPairs] : n \in 1..MaxCands}

\* the entry run of evaluate_humaneval writes for a task with outcomes cs
EntryOf(task_id, cs, base_only) ==
    [task |-> task_id,
     nfiles |-> Len(cs),
     base |-> [j \in 1..Len(cs) |-> <<cs[j][1], <<cs[j][1] = SUCCESS>>>>],
     plus |-> IF base_only THEN <<>>
              ELSE [j \in 1..Len(cs) |-> <<cs[j][2], <<cs[j][2] = SUCCESS>>>>]]

\* the result documents evaluate_humaneval writes for the two problems
WellFormedDocs ==
    { [date |-> "earlier", hash |-> get_human_eval_plus_hash,
       eval |-> <<EntryOf("P1", c1, bo), EntryOf("P2", c2, bo)>>] :
        c1 \in CandSeqs, c2 \in CandSeqs, bo \in BOOLEAN }

\* what the name json denotes inside get_failed_cases_from_json: the
\* parameter of line 12 hides the module imported at line 1
JsonInScope == "parameter"

\* lines 17-19 raise IndexError at a task whose base or plus list is empty
IndexErrorIn(data) ==
    \E i \in 1..Len(data.eval) :
        \/ data.eval[i].base = <<>>
        \/ (data.eval[i].base[1][1] # FAILED /\ data.eval[i].plus = <<>>)

\* failed_cases of lines 15-19, in the order of the document's keys
RECURSIVE FailedCasesUpTo(_, _)
FailedCasesUpTo(data, n) ==
    IF n = 0 THEN <<>>
    ELSE IF data.eval[n].base[1][1] = FAILED \/ data.eval[n].plus[1][1] = FAILED
         THEN Append(FailedCasesUpTo(data, n - 1), data.eval[n].task)
         ELSE FailedCasesUpTo(data, n - 1)

\* get_failed_cases_from_json(json) (lines 12-20): the exception raised, ""
\* if none, and the list returned
get_failed_cases_from_json(data) ==
    IF JsonInScope # "module"
    THEN [raised |-> "AttributeError", cases |-> <<>>]
    ELSE IF IndexErrorIn(data)
    THEN [raised |-> "IndexError", cases |-> <<>>]
    ELSE [raised |-> "", cases |-> FailedCasesUpTo(data, Len(data.eval))]

InitExtract ==
    /\ EvalIdle
    /\ cache = CacheEmpty
    /\ execCalls = [h \in Hashes |-> 0]
    /\ oracleM = [h \in Hashes |-> NoFile]
    /\ calls = 0
    /\ lastHash = get_human_eval_plus_hash
    /\ oraclePc = "idle"
    /\ txt1 = <<>>
    /\ txt2 = <<>>
    /\ outputs = [o \in {"fwd", "swp"} |-> [f1_not_f2 |-> NoFile, f2_not_f1 |-> NoFile]]
    /\ jsonFile \in {File(d) : d \in WellFormedDocs}
    /\ failedOut = NoFile
    /\ toolPc = "idle"
    /\ raisedFor = {}

\* generate_failed_cases() with --json and --output (lines 22-31)
generate_failed_cases ==
    /\ toolPc = "idle"
    /\ LET r == get_failed_cases_from_json(Content(jsonFile))
       IN  IF r.raised # ""
           THEN toolPc' = r.raised /\ UNCHANGED failedOut
           ELSE toolPc' = "exited" /\ failedOut' = File(r.cases)
    /\ UNCHANGED <<diskVars, runVars, bookVars, lastHash, oraclePc, txt1, txt2, outputs,
                   jsonFile, raisedFor, watchVars>>

NextExtract == generate_failed_cases

SpecExtract == InitExtract /\ [][NextExtract]_vars

\* the tasks of document d with a base or plus result that did not succeed
FailedTasks(d) ==
    {d.eval[i].task : i \in
        {i \in 1..Len(d.eval) :
            \/ \E j \in 1..Len(d.eval[i].base) : d.eval[i].base[j][1] # SUCCESS
            \/ \E j \in 1..Len(d.eval[i].plus) : d.eval[i].plus[j][1] # SUCCESS}}

\* C10 as stated: given a well-formed result document the extraction command
\* terminates normally and its output file lists the tasks that have a
\* failed case in the document, and no others.
C10_Extracts ==
    toolPc # "idle" =>
        /\ toolPc = "exited"
        /\ isfile(failedOut)
        /\ Range(Content(failedOut)) = FailedTasks(Content(jsonFile))

\* ------------------------------------------------ dispatch and collection
\* the number of futures submitted before the i-th one for the same task
EarlierOfTask(fs, i) ==
    Cardinality({j \in 1..(i - 1) : fs[j].args[2].task_id = fs[i].args[2].task_id})

\* C11: the j-th candidate streamed for a task (j from 0) is submitted with
\* completion index j, so a task's indices are 0..n-1 without duplicate or
\* gap; every candidate read is submitted exactly once, and what was
\* submitted does not change with the workers' scheduling.
C11_Indices ==
    /\ [](/\ \A i \in 1..Len(futures) : futures[i].args[1] = EarlierOfTask(futures, i)
          /\ \A t \in Problems :
                {fs.args[1] : fs \in Range(TaskFutures(futures, t))}
                    = 0..(Len(TaskFutures(futures, t)) - 1)
          /\ \A t \in Problems : completion_id[t] = Len(TaskFutures(futures, t))
          /\ pc \in {"reading", "collecting"} => Len(futures) = n_samples)
    /\ [][/\ n_samples' = n_samples + 1 =>
                /\ Len(futures') = Len(futures) + 1
                /\ SubSeq(futures', 1, Len(futures)) = futures
          /\ pc' # "idle" =>
                /\ Len(futures') >= Len(futures)
                /\ \A i \in 1..Len(futures) : futures'[i].args = futures[i].args
         ]_vars

\* three candidates are in the pool, two of them of one task and the later
\* of the two already run while the earlier is still pending
C11_Witness ==
    /\ Len(futures) = 3
    /\ \E i, j \in 1..3 :
          /\ i < j
          /\ futures[i].args[2].task_id = futures[j].args[2].task_id
          /\ futures[i].state = "pending"
          /\ futures[j].state = "finished"
          /\ futures[j].args[1] = 1

\* the assertions of lines 166-167 have passed: submission has finished
SubmissionFinished == wpc # "unstarted"

\* the futures whose result the loop of lines 180-183 has taken
ResultTaken == {i \in collected : futures[i].state = "finished"}

\* the run identifiers of the submitted checks whose result is not taken
Outstanding == {futures[i].args[7] : i \in (1..Len(futures)) \ ResultTaken}

\* how often result r is in the list eval_results keeps for its task
TimesListed(er, r) ==
    LET k == KeyIndex(er, r.task_id)
    IN  IF k = 0 THEN 0
        ELSE Cardinality({j \in 1..Len(er[k].list) : er[k].list[j] = r})

\* the number of results in eval_results
ResultsListed(er) == SumSeq([k \in 1..Len(er) |-> Len(er[k].list)])

\* C12: once submission has finished, remainings is the set of identifiers
\* of the submitted checks whose result has not been collected; a collected
\* result removes its own identifier and nothing else and is appended once to
\* the list of its own task; the set is empty when every check is collected.
C12_Remaining ==
    /\ [](SubmissionFinished =>
            /\ remainings = Outstanding
            /\ \A i \in 1..Len(futures) :
                  TimesListed(eval_results, ResultOf(futures[i]))
                      = IF i \in ResultTaken THEN 1 ELSE 0
            /\ ResultsListed(eval_results) = Cardinality(ResultTaken)
            /\ ResultTaken = 1..Len(futures) => remainings = {})
    /\ [](PastAggregation => remainings = {})
    /\ [][(SubmissionFinished /\ pc' # "idle" /\ collected' # collected) =>
              \E i \in collected' \ collected :
                  /\ collected' = collected \cup {i}
                  /\ IF futures[i].state = "finished"
                     THEN /\ futures[i].args[7] \in remainings
                          /\ remainings' = remainings \ {futures[i].args[7]}
                          /\ ResultsListed(eval_results') = ResultsListed(eval_results) + 1
                     ELSE remainings' = remainings /\ eval_results' = eval_results
         ]_vars

\* of three submitted checks the last has been collected first: its
\* identifier is gone, the two others are outstanding
C12_Witness ==
    /\ pc = "collecting"
    /\ Len(futures) = 3
    /\ collected = {3}
    /\ Cardinality(remainings) = 2
    /\ futures[3].args[7] \notin remainings
    /\ Len(eval_results) = 1

\* ------------------------------------------------------ watchdog properties
\* the watchdog thread has ended: stucking_checker returned or raised
WatchEnded == wpc \in {"exited", "RuntimeError"}

\* the thread is between two reads of remainings that belong together: the
\* two operands of line 173, the count of line 174, the iteration of 175-176
WatchReading == wpc \in {"line173and", "line174", "line175", "line176"}

\* C13 as stated: the watchdog emits its diagnostic, the count and the
\* identifiers of the outstanding runs, exactly when the size of remainings
\* is the same at two consecutive polls an interval apart and is not zero;
\* it emits nothing when the size has changed or the set is empty.
C13_Diagnostic ==
    /\ [][(wpc = "line173" /\ wpc' # wpc /\ last_size = Cardinality(remainings)
              /\ last_size > 0) => wpc' = "line173and"]_vars
    /\ [][(wpc = "line173and" /\ wpc' # wpc /\ last_size > 0) => wpc' = "line174"]_vars
    /\ [][(wpc = "line176" /\ wpc' # wpc) =>
              wpc' = "line170" /\ stdout.count = Cardinality(stdout.ids)
                               /\ stdout.ids = remainings]_vars
    /\ [][(wpc' = "line174" /\ wpc # "line174") =>
              wpc = "line173and" /\ last_size > 0 /\ remainings # {}]_vars
    /\ [][(wpc = "line173" /\ wpc' # wpc /\ last_size # Cardinality(remainings)) =>
              wpc' = "line170" /\ stdout' = stdout]_vars

\* C14: no step of the watchdog thread changes remainings, the accumulated
\* results or a submitted check; no check is cancelled: a submitted check
\* stays pending until its worker has run it, and then keeps its outcome.
C14_Observational ==
    /\ [][(wpc # "unstarted" /\ watchVars' # watchVars) =>
              UNCHANGED <<diskVars, runVars, bookVars>>]_vars
    /\ [](\A i \in 1..Len(futures) : futures[i].state \in {"pending", "finished", "raised"})
    /\ [][\A i \in 1..Len(futures) :
              /\ i <= Len(futures')
              /\ futures'[i].args = futures[i].args
              /\ futures[i].state # "pending" => futures'[i].state = futures[i].state
              /\ futures'[i].state # futures[i].state => watchVars' = watchVars]_vars

\* the watchdog has printed a diagnostic that names two outstanding runs,
\* and the evaluation has gone on to collect every check and has finished
C14_Witness ==
    /\ pc = "done"
    /\ wpc = "exited"
    /\ stdout.count = 2
    /\ Cardinality(stdout.ids) = 2
    /\ Cardinality(ResultTaken) = 3

\* C15 as stated: no removal by the main thread falls between reads of the
\* watchdog that belong together, and the watchdog never fails because the
\* set changed under it.
C15_Synchronized ==
    /\ [](wpc # "RuntimeError")
    /\ [][WatchReading => remainings' = remainings]_vars

\* C20 as stated: once started, the watchdog thread terminates in every run,
\* also in a run whose collection loop ends with an exception while
\* identifiers are in remainings.
C20_Terminates == SubmissionFinished ~> WatchEnded

\* ------------------------------------------------------------ the forced path
\* the run is forced and a file is at result_path
ForcedOverFile == flags.i_just_wanna_run /\ isfile(resultFile)

\* the operator has answered the prompt of line 200 with y or n
Answered == Lower(decision) \in {"y", "n"}

\* C16 as stated: on a forced run with an existing result file the prompt
\* and the backup come before problems and oracle are loaded and before any
\* check is submitted; evaluation proceeds only after the operator's answer.
C16_PromptFirst ==
    /\ pc = "prompt" => ~isfile(expected_output) /\ futures = <<>>
    /\ (ForcedOverFile /\ pc \in {"reading", "collecting"}) => Answered

\* C16 as the code has it: on a forced run with an existing result file the
\* oracle is loaded and every check is submitted, collected and aggregated
\* before the operator is asked; the prompt and the backup come after the
\* aggregation, and only the write of the new document waits for the answer.
C16_PromptAfterEvaluation ==
    /\ [](pc = "prompt" =>
            /\ ForcedOverFile
            /\ isfile(expected_output)
            /\ Len(futures) = n_samples
            /\ ResultTaken = 1..Len(futures)
            /\ Content(results).eval = Aggregated(eval_results, flags.base_only))
    /\ [](pc \in {"line119", "reading", "collecting", "line196"} => decision = "")
    /\ [][(pc = "line196" /\ pc' # pc /\ ForcedOverFile) => pc' = "prompt"]_vars
    /\ [][backups' # backups => pc = "prompt" /\ PastAggregation']_vars
    /\ [](pc = "line210" /\ ForcedOverFile => Lower(decision) = "n")
    /\ [][writes' = writes + 1 /\ flags.i_just_wanna_run /\ decision # "" =>
              Lower(decision) = "y"]_vars

\* three checks have been evaluated and aggregated over the existing file
\* before the operator said yes and the old file was moved away
C16_Witness ==
    /\ pc = "line210"
    /\ flags.i_just_wanna_run
    /\ Lower(decision) = "y"
    /\ Len(futures) = 3
    /\ ~isfile(resultFile)
    /\ backups # <<>>

\* ------------------------------------------------------- pass@k properties
\* the completion indices of entry e at which base and plus both succeeded
BothSucceed(e) ==
    {j \in 1..e.nfiles : e.base[j][1] = SUCCESS /\ e.plus[j][1] = SUCCESS}

\* C18: in the base+plus pass the success count of a task is the number of
\* completion indices at which the base status and the plus status are both
\* success, so plus count <= base count <= candidate count for every task.
C18_PlusCounts ==
    isfile(summary.plus) =>
        LET d == Content(results)
            base == Content(summary.base)
            plus == Content(summary.plus)
        IN  \A k \in DOMAIN plus :
                /\ k \in DOMAIN base
                /\ Len(plus[k]) = Len(d.eval)
                /\ \A i \in 1..Len(d.eval) :
                      /\ plus[k][i][1] = d.eval[i].nfiles
                      /\ plus[k][i][2] = Cardinality(BothSucceed(d.eval[i]))
                      /\ plus[k][i][2] <= base[k][i][2]
                      /\ base[k][i][2] <= d.eval[i].nfiles

\* the base+plus pass has counted a task with two candidates of which one
\* passed the plus suite only and the other the base suite only
C18_Witness ==
    /\ pc = "done"
    /\ isfile(summary.plus)
    /\ 1 \in DOMAIN Content(summary.plus)
    /\ \E i \in 1..Len(Content(results).eval) :
          /\ Content(summary.plus)[1][i] = <<2, 0, 1>>
          /\ Content(summary.base)[1][i] = <<2, 1, 1>>

\* C19 as stated: whenever the base+plus pass is computed, new_correct has
\* exactly one entry per task of the document and entry t of new_correct and
\* of total belong to the same task, also for a loaded document in which
\* some tasks have an empty plus sequence and others do not.
C19_Aligned ==
    (pc = "line215" /\ PlusPass(Content(results))) =>
        LET d == Content(results)
        IN  /\ Len(NewCorrect(d)) = Len(Total(d))
            /\ \A i \in 1..Len(d.eval) : NewCorrect(d)[i] = PlusCorrectOf(d.eval[i])

====
